---- MODULE Spec2Model ----
(***************************************************************************)
(* Favorites persistence and search aggregation of the movie service       *)
(* (backend/src/movies/movies.service.ts and its controller).              *)
(*                                                                         *)
(* State: the durable favorites file, the in-memory favorites array of the *)
(* MoviesService instance, and the outcome of the last request; the add    *)
(* requests the server has accepted and not yet answered; and, in the      *)
(* browser, the movie cards of a page and the search bar.                  *)
(***************************************************************************)
EXTENDS Integers, Sequences, FiniteSets, TLC

VARIABLES file, favorites, last, requests, cards, bar, pages, results,
          listing

vars == <<file, favorites, last, requests, cards, bar, pages, results, listing>>

\* the favorites store of the service
store == <<file, favorites, last>>

\* everything outside the favorites store
client == <<requests, cards, bar, pages, results, listing>>

(* ------------------------------ bounds --------------------------------- *)

\* longest favorites array the model stores
MaxLen == 3
\* largest page number a request carries
MaxPage == 4
\* largest pageSize a service-level list call carries
MaxPageSize == 2
\* longest result array of one catalog response
MaxItems == 2
\* largest collection of the pagination specification
MaxTotal == 25
\* most add/remove requests a page has in flight
MaxInFlight == 3
\* clock ticks that make up the debounce delay of the search bar
DebounceTicks == 2

(* ------------------------------ records -------------------------------- *)

MovieDto(id, title) ==
    [title |-> title, imdbID |-> id, year |-> 2010, poster |-> "N/A"]

\* well-formed records the add requests draw from; two of them share an
\* imdbID and differ in another field
Movies == {MovieDto("tt1", "A"), MovieDto("tt1", "B"), MovieDto("tt2", "A")}

\* records another process writes into the file
EditMovies == {MovieDto("tt1", "A"), MovieDto("tt2", "A")}

\* a body whose imdbID is missing/empty
NoIdMovie == MovieDto("", "A")

Ids == {"tt1", "tt2"}

\* ids a remove request can carry: valid, empty, whitespace-only
EmptyIds == {"", "   "}

(* --------------------------- the durable file -------------------------- *)

\* What the backing file can hold, by what loadFavorites makes of it:
\*   missing     existsSync is false
\*   unreadable  the file exists, readFileSync throws
\*   garbage     the text does not parse as JSON (also a truncated write)
\*   null        the text parses to null
\*   object      the text parses to a non-array object such as {}
\*   array       the text parses to an array of records
FileVal(kind, recs) == [kind |-> kind, recs |-> recs]

Missing == FileVal("missing", <<>>)
Unreadable == FileVal("unreadable", <<>>)
Garbage == FileVal("garbage", <<>>)
JsonNull == FileVal("null", <<>>)
JsonObject == FileVal("object", <<>>)
Arr(recs) == FileVal("array", recs)

\* outcome of one fs.writeFileSync call: it succeeds, it throws before the
\* file is touched (open fails), or it throws after truncating the file
WriteOutcomes == {"ok", "open", "partial"}

\* a write that returns without having stored anything
writeFileSyncNothing(f, content, outcome) == f

writeFileSync(f, content, outcome) ==
    CASE outcome = "ok" -> content
      [] outcome = "open" -> f
      [] OTHER -> Garbage

\* JSON.stringify(this.favorites, null, 2) of the in-memory value
JSONstringify(mem) ==
    IF mem.kind = "array" THEN Arr(mem.recs) ELSE JsonObject

(* loadFavorites whose catch block does not reset this.favorites: content
   that cannot be read or parsed leaves the in-memory value as it was *)
loadFavoritesNoReset(f, wl) ==
    CASE f.kind = "missing" ->
           [mem |-> Arr(<<>>), file |-> writeFileSync(f, Arr(<<>>), wl)]
      [] f.kind = "array" -> [mem |-> Arr(f.recs), file |-> f]
      [] f.kind = "object" -> [mem |-> JsonObject, file |-> f]
      [] OTHER -> [mem |-> favorites, file |-> f]

(* loadFavorites: the pair <<in-memory value, file>> after the call.  wl is
   the outcome of the write it makes when the file is missing; a failure of
   that write is caught by loadFavorites' own catch. *)
loadFavorites(f, wl) ==
    CASE f.kind = "missing" ->
           [mem |-> Arr(<<>>), file |-> writeFileSync(f, JSONstringify(Arr(<<>>)), wl)]
      [] f.kind = "array" -> [mem |-> Arr(f.recs), file |-> f]
      [] f.kind = "object" -> [mem |-> JsonObject, file |-> f]
      [] OTHER -> [mem |-> Arr(<<>>), file |-> f]

\* a reload that is skipped: the in-memory value stays as it is
reloadSkipped(f, wl) == [mem |-> favorites, file |-> f]

reloadFavorites(f, wl) == loadFavorites(f, wl)

(* saveFavorites that logs a failed write and returns normally *)
saveFavoritesSwallowed(f, mem, ws) ==
    [file |-> writeFileSync(f, JSONstringify(mem), ws), threw |-> FALSE]

(* saveFavorites: the file after the call and whether it threw *)
saveFavorites(f, mem, ws) ==
    [file |-> writeFileSync(f, JSONstringify(mem), ws), threw |-> ws # "ok"]

\* a disk on which every write succeeds
Reliable == {"ok"}

\* outcomes, among W, of the write loadFavorites makes: it writes only a
\* missing file
LoadWrites(f, W) == IF f.kind = "missing" THEN W ELSE {"ok"}

\* number of writeFileSync calls a reload of f makes
loadWriteCount(f) == IF f.kind = "missing" THEN 1 ELSE 0

(* ------------------------- outcome of a request ------------------------ *)

NoMovie == MovieDto("", "")

\* The response (or exception) the last request produced, with its inputs.
\* res is "ok", "HttpException" or the name of a raw runtime error; writes
\* counts the writeFileSync calls the request made.  before, stale and
\* memHadId record what the request found: the file, whether the in-memory
\* value differed from what the file loads to, and whether the in-memory
\* array held the request's imdbID.  prev, prevId and prevMovie name the
\* request before it when that was a successful add or remove.  resp is
\* what axios.get produced for a search that reached it; frac tells that
\* page or pageSize was not an integer (page and pageSize then hold the
\* integer parts).  raced tells that another process wrote the file between
\* the request's reload and its write, and other is what it wrote.
NotAsked ==
    [type |-> "none", Response |-> "", Search |-> <<>>, totalResults |-> "",
     Error |-> "", isAxios |-> FALSE, code |-> "", status |-> 0]

Idle ==
    [op |-> "init", movie |-> NoMovie, id |-> "", title |-> "",
     page |-> 0, pageSize |-> 0,
     res |-> "ok", status |-> 200, message |-> "",
     favorites |-> <<>>, count |-> 0, totalResults |-> "", currentPage |-> 0,
     totalPages |-> 0, movies |-> <<>>, writes |-> 0, ws |-> "ok",
     before |-> Missing, stale |-> FALSE, memHadId |-> FALSE,
     prev |-> "none", prevId |-> "", prevMovie |-> NoMovie,
     resp |-> NotAsked, frac |-> FALSE,
     raced |-> FALSE, other |-> Missing]

HttpException(l, message, status) ==
    [l EXCEPT !.res = "HttpException", !.message = message, !.status = status]

\* a TypeError thrown by the runtime, not an HttpException
TypeError(l) ==
    [l EXCEPT !.res = "TypeError", !.message = "is not a function", !.status = 500]

Ok(l, message) == [l EXCEPT !.res = "ok", !.message = message, !.status = 200]

(* ------------------------------ helpers -------------------------------- *)

\* the membership test comparing whole records instead of the imdbID
existsSameRecord(recs, movieToAdd) ==
    \E i \in 1..Len(recs) : recs[i] = movieToAdd

\* exists = this.favorites.some(movie => movie.imdbID === movieToAdd.imdbID)
exists(recs, movieToAdd) ==
    \E i \in 1..Len(recs) : recs[i].imdbID = movieToAdd.imdbID

\* an index that is never -1: the last position stands in for "not found",
\* as splice(-1, 1) would delete
findIndexOrLast(recs, id) ==
    IF \E i \in 1..Len(recs) : recs[i].imdbID = id
    THEN CHOOSE i \in 1..Len(recs) :
           recs[i].imdbID = id /\ \A j \in 1..(i - 1) : recs[j].imdbID # id
    ELSE Len(recs)

\* favorites.findIndex(movie => movie.imdbID === id), 1-based, 0 for -1
findIndex(recs, id) ==
    IF \E i \in 1..Len(recs) : recs[i].imdbID = id
    THEN CHOOSE i \in 1..Len(recs) :
           recs[i].imdbID = id /\ \A j \in 1..(i - 1) : recs[j].imdbID # id
    ELSE 0

\* favorites.shift() in place of the splice: the first record goes
spliceFirst(recs, index) == Tail(recs)

\* the record at index replaced by the last one, which is then dropped
spliceSwapLast(recs, index) ==
    [i \in 1..(Len(recs) - 1) |-> IF i = index THEN recs[Len(recs)] ELSE recs[i]]

\* favorites.splice(index, 1)
splice(recs, index) ==
    [i \in 1..(Len(recs) - 1) |-> IF i < index THEN recs[i] ELSE recs[i + 1]]

\* this.favorites = [movieToAdd]
pushReplacing(recs, movieToAdd) == <<movieToAdd>>

\* this.favorites.push(movieToAdd)
push(recs, movieToAdd) == Append(recs, movieToAdd)

Min(a, b) == IF a < b THEN a ELSE b

\* a slice that takes the element at endIndex too
sliceInclusive(recs, startIndex, endIndex) ==
    SubSeq(recs, startIndex + 1, Min(endIndex + 1, Len(recs)))

\* favorites.slice(startIndex, endIndex), 0-based and end-exclusive
slice(recs, startIndex, endIndex) ==
    SubSeq(recs, startIndex + 1, Min(endIndex, Len(recs)))

\* Math.floor in place of Math.ceil
MathFloor(a, b) == a \div b

\* Math.ceil(a / b) for a >= 0, b >= 1
MathCeil(a, b) == (a + b - 1) \div b

\* movieId.length === 0, without the trim
trimIsEmptyNever(str) == FALSE

\* movieId.trim().length === 0
trimIsEmpty(str) == str \in {"", "   "}

\* the set built from another field of the records
getFavoritesSetOfTitles(recs) == {recs[i].title : i \in 1..Len(recs)}

\* new Set(this.favorites.map(fav => fav.imdbID))
getFavoritesSet(recs) == {recs[i].imdbID : i \in 1..Len(recs)}

\* a request of the given kind arriving in the current state
Request(op, id) ==
    LET followsUpdate == last.res = "ok" /\ last.op \in {"add", "remove"}
    IN [Idle EXCEPT !.op = op, !.before = file,
                    !.stale = (favorites # loadFavorites(file, "ok").mem),
                    !.memHadId = \E i \in 1..Len(favorites.recs) :
                                     favorites.recs[i].imdbID = id,
                    !.prev = IF followsUpdate THEN last.op ELSE "none",
                    !.prevId = IF ~followsUpdate THEN ""
                               ELSE IF last.op = "add" THEN last.movie.imdbID
                               ELSE last.id,
                    !.prevMovie = IF followsUpdate THEN last.movie ELSE NoMovie]

(* ---------------------- state outside the store ------------------------ *)

\* no add request accepted
NoRequests == <<>>

\* no page with movie cards rendered
NoCards == [screen |-> "none", mutatingMovieId |-> "null", inflight |-> <<>>]

\* no search bar mounted
NoBar == [mounted |-> FALSE]

\* no infinite query has been created
NoPages == [kind |-> "none"]

\* the search page shows no results
NoResults == [shown |-> FALSE]

\* no client is listing the favorites page by page
NoListing == [pageSize |-> 0]

(* ------------------------------- Init ---------------------------------- *)

(* onModuleInit on a fresh data directory: the file is missing, loadFavorites
   creates it (or fails to) and the in-memory array is empty. *)
onModuleInit(W) ==
    \E wl \in W :
        LET ld == loadFavorites(Missing, wl) IN
        /\ file = ld.file
        /\ favorites = ld.mem
        /\ last = Idle
        /\ requests = NoRequests
        /\ cards = NoCards
        /\ bar = NoBar
        /\ pages = NoPages
        /\ results = NoResults
        /\ listing = NoListing

Init == onModuleInit(WriteOutcomes)

InitReliable == onModuleInit(Reliable)

(* ------------------------------ actions -------------------------------- *)

(* addToFavorites(movieToAdd); wl and ws are the outcomes of the writes in
   reloadFavorites and saveFavorites *)
addToFavorites(movieToAdd, wl, ws) ==
    LET l0 == [Request("add", movieToAdd.imdbID) EXCEPT !.movie = movieToAdd]
        ld == reloadFavorites(file, wl)
        l1 == [l0 EXCEPT !.writes = loadWriteCount(file)]
    IN
    IF movieToAdd.imdbID = ""
    THEN /\ last' = HttpException(l0, "Invalid movie data", 400)
         /\ UNCHANGED <<file, favorites>>
    ELSE IF ld.mem.kind # "array"
    THEN /\ last' = TypeError(l1)
         /\ favorites' = ld.mem
         /\ file' = ld.file
    ELSE IF exists(ld.mem.recs, movieToAdd)
    THEN /\ last' = HttpException(l1, "Movie already in favorites", 400)
         /\ favorites' = ld.mem
         /\ file' = ld.file
    ELSE LET pushed == Arr(push(ld.mem.recs, movieToAdd))
             sv == saveFavorites(ld.file, pushed, ws)
             l2 == [l1 EXCEPT !.writes = @ + 1, !.ws = ws]
         IN
         /\ Len(ld.mem.recs) < MaxLen
         /\ favorites' = pushed
         /\ file' = sv.file
         /\ last' = IF sv.threw
                    THEN HttpException(l2, "Failed to save favorites", 500)
                    ELSE Ok(l2, "Movie added to favorites")

AddToFavorites(W) ==
    /\ \E m \in Movies \cup {NoIdMovie}, wl \in LoadWrites(file, W), ws \in W :
           addToFavorites(m, wl, ws)
    /\ UNCHANGED client

(* removeFromFavorites(movieId) *)
removeFromFavorites(movieId, wl, ws) ==
    LET l0 == [Request("remove", movieId) EXCEPT !.id = movieId]
        ld == reloadFavorites(file, wl)
        l1 == [l0 EXCEPT !.writes = loadWriteCount(file)]
        index == findIndex(ld.mem.recs, movieId)
    IN
    IF movieId = "" \/ trimIsEmpty(movieId)
    THEN /\ last' = HttpException(l0, "Movie ID is required", 400)
         /\ UNCHANGED <<file, favorites>>
    ELSE IF ld.mem.kind # "array"
    THEN /\ last' = TypeError(l1)
         /\ favorites' = ld.mem
         /\ file' = ld.file
    ELSE IF index = 0
    THEN /\ last' = HttpException(l1, "Movie not found in favorites", 404)
         /\ favorites' = ld.mem
         /\ file' = ld.file
    ELSE LET spliced == Arr(splice(ld.mem.recs, index))
             sv == saveFavorites(ld.file, spliced, ws)
             l2 == [l1 EXCEPT !.writes = @ + 1, !.ws = ws]
         IN
         /\ favorites' = spliced
         /\ file' = sv.file
         /\ last' = IF sv.threw
                    THEN HttpException(l2, "Failed to save favorites", 500)
                    ELSE Ok(l2, "Movie removed from favorites")

RemoveFromFavorites(W) ==
    /\ \E id \in Ids \cup EmptyIds, wl \in LoadWrites(file, W), ws \in W :
           removeFromFavorites(id, wl, ws)
    /\ UNCHANGED client

\* an Error thrown with new Error(message), not an HttpException
RawError(l, message) ==
    [l EXCEPT !.res = "Error", !.message = message, !.status = 500]

(* MoviesController.removeFromFavorites(imdbID): its own check of the
   parameter, then the service call; what the service throws is rethrown *)
controllerRemoveFromFavorites(imdbID, wl, ws) ==
    IF imdbID = ""
    THEN /\ last' = RawError([Request("controllerRemove", imdbID)
                                 EXCEPT !.id = imdbID],
                             "imdbID parameter is required")
         /\ UNCHANGED <<file, favorites>>
    ELSE removeFromFavorites(imdbID, wl, ws)

ControllerRemoveFromFavorites(W) ==
    /\ \E imdbID \in Ids \cup EmptyIds, wl \in LoadWrites(file, W), ws \in W :
           controllerRemoveFromFavorites(imdbID, wl, ws)
    /\ UNCHANGED client

\* a 404 for an empty favorites list
emptyFavoritesNotFound(l, page) ==
    HttpException(l, "No favorites found", 404)

\* the response getFavorites returns when this.favorites.length === 0
emptyFavorites(l, page) ==
    [Ok(l, "") EXCEPT !.favorites = <<>>, !.count = 0, !.totalResults = "0",
                      !.currentPage = page, !.totalPages = 0]

(* getFavorites(page, pageSize) *)
getFavorites(page, pageSize, wl) ==
    LET l0 == [Request("list", "") EXCEPT !.page = page, !.pageSize = pageSize]
        ld == reloadFavorites(file, wl)
        l1 == [l0 EXCEPT !.writes = loadWriteCount(file)]
        startIndex == (page - 1) * pageSize
        endIndex == startIndex + pageSize
        paginatedFavorites == slice(ld.mem.recs, startIndex, endIndex)
        totalPages == MathCeil(Len(ld.mem.recs), pageSize)
    IN
    IF page < 1
    THEN /\ last' = HttpException(l0, "Page must be a positive integer", 400)
         /\ UNCHANGED <<file, favorites>>
    ELSE IF pageSize < 1
    THEN /\ last' = HttpException(l0, "Page size must be a positive integer", 400)
         /\ UNCHANGED <<file, favorites>>
    ELSE IF ld.mem.kind # "array"
    THEN /\ last' = TypeError(l1)
         /\ favorites' = ld.mem
         /\ file' = ld.file
    ELSE /\ favorites' = ld.mem
         /\ file' = ld.file
         /\ last' = IF Len(ld.mem.recs) = 0
                    THEN emptyFavorites(l1, page)
                    ELSE [Ok(l1, "") EXCEPT !.favorites = paginatedFavorites,
                             !.count = Len(paginatedFavorites),
                             !.totalResults = ToString(Len(ld.mem.recs)),
                             !.currentPage = page, !.totalPages = totalPages]

\* default of the pageSize parameter
DefaultPageSize == 10

\* page sizes of the service-level calls: small ones and the default
PageSizes == 0..MaxPageSize \cup {DefaultPageSize}

GetFavorites(W) ==
    /\ \E page \in 0..MaxPage, pageSize \in PageSizes, wl \in LoadWrites(file, W) :
           getFavorites(page, pageSize, wl)
    /\ UNCHANGED client

\* Number.isInteger of a number given in halves (3 stands for 1.5)
NumberIsInteger(halves) == halves % 2 = 0

\* the numbers a caller passes beside the integers: 0.5, 1, 1.5, in halves
Halves == 1..3

(* getFavorites(page, pageSize) called with numbers that need not be
   integers, both given in halves *)
getFavoritesOfHalves(pageHalves, pageSizeHalves, wl) ==
    LET l0 == [Request("list", "") EXCEPT !.page = pageHalves \div 2,
                  !.pageSize = pageSizeHalves \div 2,
                  !.frac = ~(NumberIsInteger(pageHalves)
                             /\ NumberIsInteger(pageSizeHalves))]
    IN
    IF pageHalves < 2 \/ ~NumberIsInteger(pageHalves)
    THEN /\ last' = HttpException(l0, "Page must be a positive integer", 400)
         /\ UNCHANGED <<file, favorites>>
    ELSE IF pageSizeHalves < 2 \/ ~NumberIsInteger(pageSizeHalves)
    THEN /\ last' = HttpException(l0, "Page size must be a positive integer", 400)
         /\ UNCHANGED <<file, favorites>>
    ELSE getFavorites(pageHalves \div 2, pageSizeHalves \div 2, wl)

GetFavoritesOfHalves(W) ==
    /\ \E pageHalves \in Halves, pageSizeHalves \in Halves,
          wl \in LoadWrites(file, W) :
           getFavoritesOfHalves(pageHalves, pageSizeHalves, wl)
    /\ UNCHANGED client

(* MoviesController.getFavorites: page = paginationDto.page || 1 and the
   service's default pageSize; pageParam 0 stands for an absent page *)
controllerGetFavorites(pageParam, wl) ==
    LET page == IF pageParam = 0 THEN 1 ELSE pageParam
    IN getFavorites(page, DefaultPageSize, wl)

ControllerGetFavorites(W) ==
    /\ \E pageParam \in 0..MaxPage, wl \in LoadWrites(file, W) :
           controllerGetFavorites(pageParam, wl)
    /\ UNCHANGED client

(* ------------------------- out-of-band file edits ---------------------- *)

SeqsUpTo(S, n) == UNION {[1..k -> S] : k \in 0..n}

\* everything another process can leave in the file
FileContents ==
    {Missing, Unreadable, Garbage, JsonNull, JsonObject}
        \cup {Arr(recs) : recs \in SeqsUpTo(EditMovies, MaxLen)}

(* another process replaces, damages or deletes the file *)
ExternalEdit ==
    /\ \E f \in FileContents : f # file /\ file' = f
    /\ last' = [Idle EXCEPT !.op = "edit"]
    /\ UNCHANGED favorites
    /\ UNCHANGED client

(* --------------------------- catalog provider -------------------------- *)

CatalogItem(id) == [Title |-> "T", imdbID |-> id, Year |-> "1999", Poster |-> "N/A"]

\* ids the provider returns: a possible favorite and one that never is
CatalogIds == {"tt1", "tt3"}

\* A 2xx body of the provider.  An absent Search is <<>>, an absent
\* totalResults or Error is "" (all of them falsy in the code's || tests).
OmdbBody(response, items, total, error) ==
    [type |-> "data", Response |-> response, Search |-> items,
     totalResults |-> total, Error |-> error,
     isAxios |-> FALSE, code |-> "", status |-> 200]

\* A rejected axios.get: an AxiosError with its code and, when the provider
\* answered, the response status (0: no response), or some other throwable
Rejected(isAxios, code, status) ==
    [type |-> "error", Response |-> "", Search |-> <<>>,
     totalResults |-> "", Error |-> "",
     isAxios |-> isAxios, code |-> code, status |-> status]

ErrorCodes ==
    {"ECONNABORTED", "ENOTFOUND", "ECONNREFUSED", "ETIMEDOUT", "ENETUNREACH",
     "ERR_BAD_RESPONSE", ""}

CatalogResponses ==
    {OmdbBody("True", items, "25", "") :
        items \in SeqsUpTo({CatalogItem(id) : id \in CatalogIds}, MaxItems)}
    \cup {OmdbBody("True", <<>>, "", ""),
          OmdbBody("False", <<>>, "", "Movie not found!"),
          OmdbBody("False", <<>>, "", ""),
          OmdbBody("True", <<CatalogItem("tt1")>>, "1", "Too many results.")}
    \cup {Rejected(TRUE, code, status) :
            code \in ErrorCodes, status \in {0, 401, 500}}
    \cup {Rejected(FALSE, "", 0)}

\* title.trim().length === 0 for the titles the model sends
SearchTitles == {"matrix", "", "   "}

\* the catch block without its ECONNABORTED branch
searchMoviesCatchNoTimeout(l, error) ==
    IF error.isAxios /\ error.code = "ENOTFOUND"
    THEN HttpException(l, "Unable to connect to OMDb API: DNS lookup failed", 503)
    ELSE IF error.isAxios /\ error.code = "ECONNREFUSED"
    THEN HttpException(l, "Unable to connect to OMDb API: Connection refused", 503)
    ELSE IF error.isAxios /\ error.code \in {"ETIMEDOUT", "ENETUNREACH"}
    THEN HttpException(l, "Unable to connect to OMDb API: Network error", 503)
    ELSE IF error.isAxios /\ error.status = 401
    THEN HttpException(l, "Invalid OMDb API key", 401)
    ELSE IF error.isAxios /\ error.status # 0
    THEN HttpException(l, "OMDb API error: " \o ToString(error.status), 502)
    ELSE HttpException(l, "Failed to search movies. Please try again later.", 500)

\* the catch block testing error.response before error.code
searchMoviesCatchResponseFirst(l, error) ==
    IF error.isAxios /\ error.status = 401
    THEN HttpException(l, "Invalid OMDb API key", 401)
    ELSE IF error.isAxios /\ error.status # 0
    THEN HttpException(l, "OMDb API error: " \o ToString(error.status), 502)
    ELSE IF error.isAxios /\ error.code = "ECONNABORTED"
    THEN HttpException(l, "Request timeout: OMDb API did not respond in time", 408)
    ELSE IF error.isAxios /\ error.code = "ENOTFOUND"
    THEN HttpException(l, "Unable to connect to OMDb API: DNS lookup failed", 503)
    ELSE IF error.isAxios /\ error.code = "ECONNREFUSED"
    THEN HttpException(l, "Unable to connect to OMDb API: Connection refused", 503)
    ELSE IF error.isAxios /\ error.code \in {"ETIMEDOUT", "ENETUNREACH"}
    THEN HttpException(l, "Unable to connect to OMDb API: Network error", 503)
    ELSE HttpException(l, "Failed to search movies. Please try again later.", 500)

(* the catch block of searchMovies: the HttpException thrown for what
   axios.get rejected with; the 502 message carries the status (the status
   text the code appends to it is not modelled) *)
searchMoviesCatch(l, error) ==
    IF error.isAxios /\ error.code = "ECONNABORTED"
    THEN HttpException(l, "Request timeout: OMDb API did not respond in time", 408)
    ELSE IF error.isAxios /\ error.code = "ENOTFOUND"
    THEN HttpException(l, "Unable to connect to OMDb API: DNS lookup failed", 503)
    ELSE IF error.isAxios /\ error.code = "ECONNREFUSED"
    THEN HttpException(l, "Unable to connect to OMDb API: Connection refused", 503)
    ELSE IF error.isAxios /\ error.code \in {"ETIMEDOUT", "ENETUNREACH"}
    THEN HttpException(l, "Unable to connect to OMDb API: Network error", 503)
    ELSE IF error.isAxios /\ error.status = 401
    THEN HttpException(l, "Invalid OMDb API key", 401)
    ELSE IF error.isAxios /\ error.status # 0
    THEN HttpException(l, "OMDb API error: " \o ToString(error.status), 502)
    ELSE HttpException(l, "Failed to search movies. Please try again later.", 500)

(* searchMovies(title, page): the value it returns or the exception it
   throws, given what axios.get produces *)
searchMovies(l, title, page, resp) ==
    IF title = "" \/ trimIsEmpty(title)
    THEN HttpException(l, "Search query cannot be empty", 400)
    ELSE IF page < 1
    THEN HttpException(l, "Page must be a positive integer", 400)
    ELSE IF resp.type = "data"
    THEN IF resp.Response = "False" \/ resp.Error # ""
         THEN [Ok(l, "") EXCEPT !.movies = <<>>, !.totalResults = "0"]
         ELSE [Ok(l, "") EXCEPT !.movies = resp.Search,
                  !.totalResults = IF resp.totalResults = "" THEN "0"
                                   ELSE resp.totalResults]
    ELSE searchMoviesCatch(l, resp)

(* getMovieByTitle(title, page): tags the catalog items against the
   in-memory favorites; it does not reload the file *)
getMovieByTitle(title, page, resp) ==
    LET asked == ~(title = "" \/ trimIsEmpty(title) \/ page < 1)
        l0 == [Request("search", "") EXCEPT !.title = title, !.page = page,
                  !.resp = IF asked THEN resp ELSE NotAsked]
        response == searchMovies(l0, title, page, resp)
        favoritesSet == getFavoritesSet(favorites.recs)
        formattedMovies ==
            [i \in 1..Len(response.movies) |->
                [title |-> response.movies[i].Title,
                 imdbID |-> response.movies[i].imdbID,
                 year |-> response.movies[i].Year,
                 poster |-> response.movies[i].Poster,
                 isFavorite |-> response.movies[i].imdbID \in favoritesSet]]
    IN
    /\ last' = IF response.res # "ok"
               THEN response
               ELSE IF favorites.kind # "array"
               THEN HttpException(l0, "Failed to get movie", 500)
               ELSE [response EXCEPT !.movies = formattedMovies,
                                     !.count = Len(formattedMovies)]
    /\ UNCHANGED <<file, favorites>>

\* axios.get is reached only by a request that passes the validation;
\* R is what the provider can answer
Answers(title, page, R) ==
    IF title = "" \/ trimIsEmpty(title) \/ page < 1
    THEN {Rejected(FALSE, "", 0)}
    ELSE R

\* a search while the provider answers with one of R
GetMovieByTitleFrom(R) ==
    /\ \E title \in SearchTitles, page \in {0, 1, MaxPage} :
           \E resp \in Answers(title, page, R) :
               getMovieByTitle(title, page, resp)
    /\ UNCHANGED client

GetMovieByTitle == GetMovieByTitleFrom(CatalogResponses)

\* the answers of a provider that is up: results or the no-results sentinel
BodyResponses == {resp \in CatalogResponses : resp.type = "data"}

(* ------------------- add requests accepted together -------------------- *)

\* records two clients post at the same time
ConcurrentMovies == Movies \cup {MovieDto("tt3", "A")}

\* A POST /movies/favorites the server has accepted; its handler has not
\* run yet.  fresh: the file did not hold the record's imdbID on arrival.
AddRequest(movieToAdd) ==
    [movie |-> movieToAdd, pc |-> "accepted", res |-> "", status |-> 0,
     fresh |-> ~\E i \in 1..Len(file.recs) :
                   file.recs[i].imdbID = movieToAdd.imdbID]

\* no accepted request waits for its handler
Quiet == \A r \in 1..Len(requests) : requests[r].pc = "answered"

(* two requests with different imdbIDs arrive before either handler runs *)
AcceptTwoAdds ==
    /\ requests = NoRequests
    /\ file.kind = "array"
    /\ Len(file.recs) + 2 <= MaxLen
    /\ \E m1, m2 \in ConcurrentMovies :
          /\ m1.imdbID # m2.imdbID
          /\ requests' = <<AddRequest(m1), AddRequest(m2)>>
    /\ UNCHANGED <<store, cards, bar, pages, results, listing>>

(* The event loop runs the handler of one accepted request.
   MoviesController.addToFavorites calls MoviesService.addToFavorites, which
   has no await: readFileSync, push and writeFileSync run to the return (or
   the throw) before any other callback of the process. *)
HandleAdd(W) ==
    /\ \E r \in 1..Len(requests), wl \in LoadWrites(file, W), ws \in W :
          /\ requests[r].pc = "accepted"
          /\ addToFavorites(requests[r].movie, wl, ws)
          /\ requests' = [requests EXCEPT ![r].pc = "answered",
                                          ![r].res = last'.res,
                                          ![r].status = last'.status]
    /\ UNCHANGED <<cards, bar, pages, results, listing>>

(* a remove request served while no add request is accepted *)
RemoveWhenQuiet(W) ==
    /\ requests = NoRequests
    /\ RemoveFromFavorites(W)

(* both responses are on their way to the clients *)
Respond ==
    /\ requests # NoRequests
    /\ Quiet
    /\ requests' = NoRequests
    /\ UNCHANGED <<store, cards, bar, pages, results, listing>>

(* ----------------------- movie cards of a page ------------------------- *)

\* the pages that render movie cards
Screens == {"search", "favorites"}

\* a page as mounted: useState<string | null>(null), no mutation started
Mounted(screen) ==
    [screen |-> screen, mutatingMovieId |-> "null", inflight |-> <<>>]

\* the request mutateAsync sends for a card
Mutation(kind, imdbID) == [kind |-> kind, imdbID |-> imdbID]

(* handleToggleFavorite(movie) of the page, run by a click on the movie's
   card, and the render that follows.  On the favorites page every card is
   a favorite and the request is a remove; on the search page the card's
   isFavorite, as last fetched, decides.  The card's button is disabled
   under the same test as the handler's first line. *)
handleToggleFavorite(imdbID, isFavorite) ==
    IF cards.mutatingMovieId = imdbID
    THEN UNCHANGED cards
    ELSE cards' = [cards EXCEPT
            !.mutatingMovieId = imdbID,
            !.inflight = Append(@,
                IF cards.screen = "favorites" \/ isFavorite
                THEN Mutation("remove", imdbID)
                ELSE Mutation("add", imdbID))]

ClickCard ==
    /\ cards.screen \in Screens
    /\ Len(cards.inflight) < MaxInFlight
    /\ \E imdbID \in Ids, isFavorite \in BOOLEAN :
          handleToggleFavorite(imdbID, isFavorite)
    /\ UNCHANGED <<store, requests, bar, pages, results, listing>>

\* the sequence without its i-th element
RemoveAt(seq, i) == SubSeq(seq, 1, i - 1) \o SubSeq(seq, i + 1, Len(seq))

(* the promise of one request in flight settles, fulfilled or rejected: the
   finally block of the handler that awaited it runs *)
Settle ==
    /\ \E i \in 1..Len(cards.inflight) :
          cards' = [cards EXCEPT !.mutatingMovieId = "null",
                                 !.inflight = RemoveAt(@, i)]
    /\ UNCHANGED <<store, requests, bar, pages, results, listing>>

(* the user opens the search page or the favorites page *)
OpenPage ==
    /\ cards = NoCards
    /\ \E screen \in Screens : cards' = Mounted(screen)
    /\ UNCHANGED <<store, requests, bar, pages, results, listing>>

(* ---------------------------- search bar ------------------------------- *)

\* what the user types into the input, and what the page passes as
\* initialValue
Inputs == {"", " ", "a", " a", "ab", " ab ", "abc"}
InitialValues == {"", "ab"}

\* String.prototype.trim on the inputs
trim(str) ==
    CASE str = " " -> ""
      [] str = " a" -> "a"
      [] str = " ab " -> "ab"
      [] OTHER -> str

\* timeoutRef.current = null
NoTimer == [left |-> -1, value |-> ""]

\* no onSearch call yet
NoCall == [value |-> "", origin |-> "none"]

(* The component as useState and useRef create it.  timers are the pending
   setTimeout callbacks with the ticks left and the value they captured.
   cleanup tells that the last run of the debounce effect returned its
   cleanup function.  The other fields record the history: ticks since the
   last change of query, whether query changed, the debounced calls and the
   submits since the current run of changes began, the last onSearch call
   and the last event, and, once unmounted, whether a timer was pending
   when the component went away; callsSince and submitsSince count the
   onSearch calls and the submits since the last change of query (2 stands
   for two or more), callsAtSubmit is callsSince as the first of these
   submits found it. *)
SearchBar(initialValue) ==
    [mounted |-> TRUE, query |-> initialValue, initialValue |-> initialValue,
     isFirstRender |-> TRUE, timeoutRef |-> NoTimer, timers |-> {},
     cleanup |-> FALSE,
     quiet |-> DebounceTicks, changed |-> FALSE, runCalls |-> 0,
     runSubmit |-> FALSE, lastCall |-> NoCall, event |-> "mount",
     pendingAtUnmount |-> FALSE,
     callsSince |-> 0, submitsSince |-> 0, callsAtSubmit |-> 0]

\* if (timeoutRef.current) clearTimeout(timeoutRef.current)
clearTimeout(b) == [b EXCEPT !.timers = @ \ {b.timeoutRef}]

\* the effect with no cleanup function and no clearTimeout before setTimeout
debounceEffectKeepsTimers(b) ==
    LET trimmedQuery == trim(b.query)
        timer == [left |-> DebounceTicks, value |-> trimmedQuery]
    IN
    IF b.isFirstRender
    THEN [b EXCEPT !.isFirstRender = FALSE, !.cleanup = FALSE]
    ELSE IF Len(trimmedQuery) = 1
    THEN [b EXCEPT !.cleanup = FALSE]
    ELSE [b EXCEPT !.timers = @ \cup {timer},
                   !.timeoutRef = timer, !.cleanup = TRUE]

\* a cleanup function that clears nothing
effectCleanupNone(b) == b

(* the cleanup function the last run of the debounce effect returned, if it
   returned one *)
effectCleanup(b) ==
    IF b.cleanup /\ b.timeoutRef # NoTimer
    THEN [clearTimeout(b) EXCEPT !.timeoutRef = NoTimer]
    ELSE b

(* The debounce effect, run after a render that changed query: first the
   cleanup function the previous run returned, then the body. *)
debounceEffect(b) ==
    LET c == effectCleanup(b)
        trimmedQuery == trim(c.query)
        timer == [left |-> DebounceTicks, value |-> trimmedQuery]
    IN
    IF c.isFirstRender
    THEN [c EXCEPT !.isFirstRender = FALSE, !.cleanup = FALSE]
    ELSE IF Len(trimmedQuery) = 1
    THEN [c EXCEPT !.cleanup = FALSE]
    ELSE [c EXCEPT !.timers = clearTimeout(c).timers \cup {timer},
                   !.timeoutRef = timer, !.cleanup = TRUE]

\* setQuery(value) with a new value, as the history records it: a change
\* that comes after the delay has passed and the timer has fired begins a
\* new run of changes
setQuery(b, value) ==
    LET newRun == ~b.changed
                  \/ (b.quiet = DebounceTicks /\ b.timeoutRef = NoTimer)
    IN [b EXCEPT !.query = value, !.quiet = 0, !.changed = TRUE,
                 !.runCalls = IF newRun THEN 0 ELSE @,
                 !.runSubmit = IF newRun THEN FALSE ELSE @,
                 !.callsSince = 0, !.submitsSince = 0, !.callsAtSubmit = 0]

(* the page renders the search bar *)
Mount ==
    /\ ~bar.mounted
    /\ bar # NoBar => bar.timers = {}
    /\ \E initialValue \in InitialValues :
          bar' = debounceEffect(SearchBar(initialValue))
    /\ UNCHANGED <<store, requests, cards, pages, results, listing>>

(* onChange of the input: the user types or deletes *)
Change ==
    /\ bar.mounted
    /\ \E value \in Inputs :
          /\ value # bar.query
          /\ bar' = debounceEffect([setQuery(bar, value) EXCEPT !.event = "change"])
    /\ UNCHANGED <<store, requests, cards, pages, results, listing>>

(* the page passes another initialValue: the sync effect calls setQuery *)
InitialValueChange ==
    /\ bar.mounted
    /\ \E initialValue \in InitialValues :
          /\ initialValue # bar.initialValue
          /\ bar' = IF initialValue = bar.query
                    THEN [bar EXCEPT !.initialValue = initialValue,
                                     !.event = "initialValue"]
                    ELSE debounceEffect(
                            [setQuery(bar, initialValue) EXCEPT
                                !.initialValue = initialValue,
                                !.event = "initialValue"])
    /\ UNCHANGED <<store, requests, cards, pages, results, listing>>

\* the history fields after a submit that did or did not call onSearch
Submitted(b, called) ==
    [b EXCEPT !.runSubmit = TRUE, !.event = "submit",
              !.callsAtSubmit = IF b.submitsSince = 0 THEN b.callsSince ELSE @,
              !.submitsSince = IF @ < 2 THEN @ + 1 ELSE @,
              !.callsSince = IF called /\ @ < 2 THEN @ + 1 ELSE @]

\* handleSubmit calling onSearch whatever the length of the query
handleSubmitUnchecked(b) ==
    LET c == IF b.timeoutRef # NoTimer
             THEN [clearTimeout(b) EXCEPT !.timeoutRef = NoTimer]
             ELSE b
    IN [Submitted(c, TRUE) EXCEPT
           !.lastCall = [value |-> trim(c.query), origin |-> "submit"]]

\* handleSubmit leaving the debounce timer pending
handleSubmitKeepsTimer(b) ==
    LET trimmedQuery == trim(b.query)
        valid == Len(trimmedQuery) = 0 \/ Len(trimmedQuery) >= 2
    IN [Submitted(b, valid) EXCEPT
           !.lastCall = IF valid
                        THEN [value |-> trimmedQuery, origin |-> "submit"]
                        ELSE @]

(* handleSubmit: the user presses Enter *)
handleSubmit(b) ==
    LET c == IF b.timeoutRef # NoTimer
             THEN [clearTimeout(b) EXCEPT !.timeoutRef = NoTimer]
             ELSE b
        trimmedQuery == trim(c.query)
        valid == Len(trimmedQuery) = 0 \/ Len(trimmedQuery) >= 2
    IN [Submitted(c, valid) EXCEPT
           !.lastCall = IF valid
                        THEN [value |-> trimmedQuery, origin |-> "submit"]
                        ELSE @]

Submit ==
    /\ bar.mounted
    /\ bar' = handleSubmit(bar)
    /\ UNCHANGED <<store, requests, cards, pages, results, listing>>

(* a tick of the clock passes; a timer that is due fires first *)
Tick ==
    /\ bar # NoBar
    /\ \A timer \in bar.timers : timer.left > 0
    /\ bar.timers # {} \/ bar.quiet < DebounceTicks
    /\ bar' = [bar EXCEPT
          !.timers = {[timer EXCEPT !.left = @ - 1] : timer \in @},
          !.timeoutRef = IF @ = NoTimer THEN @ ELSE [@ EXCEPT !.left = @ - 1],
          !.quiet = IF @ < DebounceTicks THEN @ + 1 ELSE @,
          !.event = "tick"]
    /\ UNCHANGED <<store, requests, cards, pages, results, listing>>

(* the callback of a timer that is due: onSearch(trimmedQuery) and
   timeoutRef.current = null *)
Fire ==
    /\ bar # NoBar
    /\ \E timer \in bar.timers :
          /\ timer.left = 0
          /\ bar' = [bar EXCEPT
                !.timers = @ \ {timer},
                !.timeoutRef = NoTimer,
                !.lastCall = [value |-> timer.value, origin |-> "timer"],
                !.runCalls = IF @ < 2 THEN @ + 1 ELSE @,
                !.callsSince = IF @ < 2 THEN @ + 1 ELSE @,
                !.event = "fire"]
    /\ UNCHANGED <<store, requests, cards, pages, results, listing>>

(* the page goes away: React runs the cleanup function of the effect; the
   timers it leaves pending stay in the runtime *)
Unmount ==
    /\ bar.mounted
    /\ bar' = [SearchBar("") EXCEPT
                  !.mounted = FALSE,
                  !.isFirstRender = FALSE,
                  !.timers = effectCleanup(bar).timers,
                  !.event = "unmount",
                  !.pendingAtUnmount = bar.timers # {}]
    /\ UNCHANGED <<store, requests, cards, pages, results, listing>>

(* --------------------------- specifications ---------------------------- *)

\* requests of one service instance on a reliable disk, nobody else
\* touching the file
NextClosed ==
    \/ AddToFavorites(Reliable)
    \/ RemoveFromFavorites(Reliable)
    \/ GetFavorites(Reliable)
    \/ ControllerGetFavorites(Reliable)
    \/ GetMovieByTitle

SpecClosed == InitReliable /\ [][NextClosed]_vars

(* a service started on a file that already holds n distinct records, and
   then only listed *)
StoredMovie(i) == MovieDto("tt" \o ToString(i), "M")

InitLoaded ==
    \E n \in 0..MaxTotal :
        LET ld == loadFavorites(Arr([i \in 1..n |-> StoredMovie(i)]), "ok") IN
        /\ file = ld.file
        /\ favorites = ld.mem
        /\ last = Idle
        /\ requests = NoRequests
        /\ cards = NoCards
        /\ bar = NoBar
        /\ pages = NoPages
        /\ results = NoResults
        /\ listing = NoListing

NextPage ==
    \/ GetFavorites(Reliable)
    \/ ControllerGetFavorites(Reliable)

SpecPage == InitLoaded /\ [][NextPage]_vars

\* the favorites store on a reliable disk, the file open to other processes
NextEdits ==
    \/ AddToFavorites(Reliable)
    \/ RemoveFromFavorites(Reliable)
    \/ GetFavorites(Reliable)
    \/ ControllerGetFavorites(Reliable)
    \/ ControllerRemoveFromFavorites(Reliable)
    \/ ExternalEdit

SpecEdits == InitReliable /\ [][NextEdits]_vars

\* the favorites store, writes that can fail, the file open to other
\* processes
NextStore ==
    \/ AddToFavorites(WriteOutcomes)
    \/ RemoveFromFavorites(WriteOutcomes)
    \/ GetFavorites(WriteOutcomes)
    \/ ControllerGetFavorites(WriteOutcomes)
    \/ GetFavoritesOfHalves(WriteOutcomes)
    \/ ExternalEdit

SpecStore == Init /\ [][NextStore]_vars

\* everything
Next ==
    \/ AddToFavorites(WriteOutcomes)
    \/ RemoveFromFavorites(WriteOutcomes)
    \/ GetFavorites(WriteOutcomes)
    \/ ControllerGetFavorites(WriteOutcomes)
    \/ ControllerRemoveFromFavorites(WriteOutcomes)
    \/ GetFavoritesOfHalves(WriteOutcomes)
    \/ GetMovieByTitle
    \/ ExternalEdit

Spec == Init /\ [][Next]_vars

\* searches that the provider answers and favorites requests of one service
\* instance on a reliable disk, the file open to other processes
NextSearch ==
    \/ AddToFavorites(Reliable)
    \/ RemoveFromFavorites(Reliable)
    \/ ControllerGetFavorites(Reliable)
    \/ GetMovieByTitleFrom(BodyResponses)
    \/ ExternalEdit

SpecSearch == InitReliable /\ [][NextSearch]_vars

\* one service instance on a reliable disk: pairs of add requests accepted
\* together, and removes between the pairs
NextConcurrent ==
    \/ AcceptTwoAdds
    \/ HandleAdd(Reliable)
    \/ Respond
    \/ RemoveWhenQuiet(Reliable)

SpecConcurrent == InitReliable /\ [][NextConcurrent]_vars

\* searches against a provider that answers or fails in every way, and adds
\* that fill the favorites
NextCatalog ==
    \/ GetMovieByTitle
    \/ AddToFavorites(Reliable)

SpecCatalog == InitReliable /\ [][NextCatalog]_vars

\* clicks on the movie cards of a page while its requests are in flight
NextCards ==
    \/ OpenPage
    \/ ClickCard
    \/ Settle

SpecCards == InitReliable /\ [][NextCards]_vars

\* the search bar: typing, Enter, a new initialValue, the clock
NextSearchBar ==
    \/ Mount
    \/ Change
    \/ InitialValueChange
    \/ Submit
    \/ Tick
    \/ Fire
    \/ Unmount

SpecSearchBar == InitReliable /\ [][NextSearchBar]_vars

(* --------------------------- infinite queries -------------------------- *)

\* a text as the sequence of its characters
Digits == {"0", "1", "2", "3", "4", "5", "6", "7", "8", "9"}

DigitValue(ch) ==
    CASE ch = "0" -> 0 [] ch = "1" -> 1 [] ch = "2" -> 2 [] ch = "3" -> 3
      [] ch = "4" -> 4 [] ch = "5" -> 5 [] ch = "6" -> 6 [] ch = "7" -> 7
      [] ch = "8" -> 8 [] ch = "9" -> 9

\* a field the response does not have
Undefined == <<"undefined">>

\* the totalResults of a search response: the text of the catalog's count
\* and what a response may carry instead
TextTotals ==
    { <<"0">>, <<"1">>, <<"9">>, <<"1", "0">>, <<"1", "1">>, <<"2", "0">>,
      <<"2", "5">>, <<"3", "1">>, <<" ", "2", "1">>, <<"2", "5", "a">>,
      <<"1", "2", ".", "5">>, <<"-", "5">>, <<>>, <<"a", "b">>,
      <<"N", "/", "A">>, Undefined }

\* the totalPages of a favorites response
PageTotals == 0..MaxPage

NaN == [nan |-> TRUE, n |-> 0]

Num(k) == [nan |-> FALSE, n |-> k]

\* the text without its leading blanks
RECURSIVE SkipBlanks(_)
SkipBlanks(text) ==
    IF text # <<>> /\ Head(text) = " " THEN SkipBlanks(Tail(text)) ELSE text

\* the value of the longest prefix of digits, continuing from acc
RECURSIVE DigitPrefix(_, _)
DigitPrefix(text, acc) ==
    IF text # <<>> /\ Head(text) \in Digits
    THEN DigitPrefix(Tail(text), 10 * acc + DigitValue(Head(text)))
    ELSE acc

(* parseInt(text): blanks are skipped, a sign is read, then the longest
   prefix of digits; NaN when there is no digit there.  An undefined
   argument is converted to a text without digits first. *)
parseInt(text) ==
    LET t == SkipBlanks(text)
        signed == t # <<>> /\ Head(t) \in {"-", "+"}
        body == IF signed THEN Tail(t) ELSE t
        magnitude == DigitPrefix(body, 0)
    IN IF text = Undefined \/ body = <<>> \/ Head(body) \notin Digits
       THEN NaN
       ELSE Num(IF signed /\ Head(t) = "-" THEN 0 - magnitude ELSE magnitude)

\* Math.ceil(x / 10) of a parsed number: NaN stays NaN, and the quotient of
\* a negative number rounds up towards zero
MathCeilOfTenth(x) ==
    IF x.nan THEN NaN
    ELSE IF x.n <= 0 THEN Num(0 - ((0 - x.n) \div 10))
    ELSE Num(MathCeil(x.n, 10))

\* a < b of JavaScript, false when b is NaN
LessThan(a, x) == ~x.nan /\ a < x.n

\* getNextPageParam returning currentPage + 1 up to and including the
\* last page
searchGetNextPageParamInclusive(lastPage, allPagesLength) ==
    LET totalPages == MathCeilOfTenth(parseInt(lastPage.totalResults))
    IN IF LessThan(allPagesLength - 1, totalPages)
       THEN allPagesLength + 1 ELSE 0

(* getNextPageParam of useSearchMovies; 0 stands for undefined *)
searchGetNextPageParam(lastPage, allPagesLength) ==
    LET totalResults == parseInt(lastPage.totalResults)
        currentPage == allPagesLength
        totalPages == MathCeilOfTenth(totalResults)
    IN IF LessThan(currentPage, totalPages) THEN currentPage + 1 ELSE 0

\* getNextPageParam that always has a next page
favoritesGetNextPageParamAlways(lastPage, allPagesLength) ==
    allPagesLength + 1

(* getNextPageParam of useFavorites; 0 stands for undefined *)
favoritesGetNextPageParam(lastPage, allPagesLength) ==
    LET currentPage == allPagesLength
        totalPages == lastPage.totalPages
    IN IF currentPage < totalPages THEN currentPage + 1 ELSE 0

(* An infinite query: which hook made it, the page every response is (its
   total does not change), how many pages have arrived (allPages.length),
   the page being fetched (0: none), whether the sentinel below the list is
   on screen; requested is the highest page number asked for and fetches
   the number of page requests sent. *)
InfiniteQuery(kind, page) ==
    [kind |-> kind, page |-> page, allPages |-> 0, fetching |-> 1,
     visible |-> FALSE, requested |-> 1, fetches |-> 1]

getNextPageParam(q) ==
    IF q.kind = "search"
    THEN searchGetNextPageParam(q.page, q.allPages)
    ELSE favoritesGetNextPageParam(q.page, q.allPages)

\* hasNextPage of the query result: there is data and a next page param
hasNextPage(q) == q.allPages >= 1 /\ getNextPageParam(q) # 0

\* isFetchingNextPage
isFetchingNextPage(q) == q.allPages >= 1 /\ q.fetching # 0

(* the hook is first rendered with an enabled query: the page of
   initialPageParam 1 is requested *)
UseInfiniteQuery ==
    /\ pages = NoPages
    /\ \/ \E totalResults \in TextTotals :
             pages' = InfiniteQuery("search", [totalResults |-> totalResults])
       \/ \E totalPages \in PageTotals :
             pages' = InfiniteQuery("favorites", [totalPages |-> totalPages])
    /\ UNCHANGED <<store, requests, cards, bar, results, listing>>

(* the response to the page request arrives and is appended to the pages *)
PageArrives ==
    /\ pages # NoPages
    /\ pages.fetching # 0
    /\ pages' = [pages EXCEPT !.allPages = @ + 1, !.fetching = 0]
    /\ UNCHANGED <<store, requests, cards, bar, results, listing>>

(* the list is scrolled: the sentinel comes on screen or leaves it *)
Scroll ==
    /\ pages # NoPages
    /\ pages' = [pages EXCEPT !.visible = ~@]
    /\ UNCHANGED <<store, requests, cards, bar, results, listing>>

(* the intersection observer's callback of the page: fetchNextPage() when
   the sentinel is on screen, there is a next page and none is being
   fetched; fetchNextPage asks for the page getNextPageParam names *)
ObserverCallback ==
    /\ pages # NoPages
    /\ pages.visible /\ hasNextPage(pages) /\ ~isFetchingNextPage(pages)
    /\ pages' = [pages EXCEPT
                    !.fetching = getNextPageParam(pages),
                    !.requested = IF getNextPageParam(pages) > @
                                  THEN getNextPageParam(pages) ELSE @,
                    !.fetches = @ + 1]
    /\ UNCHANGED <<store, requests, cards, bar, results, listing>>

\* the infinite queries of the search page and of the favorites page
NextScroll ==
    \/ UseInfiniteQuery
    \/ PageArrives
    \/ Scroll
    \/ ObserverCallback

SpecScroll == InitReliable /\ [][NextScroll]_vars

(* ------------------- a writer between reload and write ----------------- *)

(* saveFavorites that first reads the file again and keeps the records it
   finds there next to those in memory *)
saveFavoritesMerging(f, mem, ws) ==
    LET notHeld == SelectSeq(IF f.kind = "array" THEN f.recs ELSE <<>>,
                       LAMBDA r : \A i \in 1..Len(mem.recs) :
                                      mem.recs[i].imdbID # r.imdbID)
    IN [file |-> writeFileSync(f, Arr(mem.recs \o notHeld), ws),
        threw |-> ws # "ok"]

(* saveFavorites as the racing operation runs it: writeFileSync replaces
   whatever the file holds at that moment *)
saveFavoritesOver(f, mem, ws) == saveFavorites(f, mem, ws)

(* addToFavorites on the path that writes, with another process writing
   `other` into the file after reloadFavorites has read it and before
   saveFavorites writes *)
addToFavoritesRaced(movieToAdd, wl, ws, other) ==
    LET ld == reloadFavorites(file, wl)
        pushed == Arr(push(ld.mem.recs, movieToAdd))
        sv == saveFavoritesOver(other, pushed, ws)
        l2 == [Request("add", movieToAdd.imdbID) EXCEPT
                  !.movie = movieToAdd,
                  !.writes = loadWriteCount(file) + 1, !.ws = ws,
                  !.raced = TRUE, !.other = other]
    IN /\ movieToAdd.imdbID # ""
       /\ ld.mem.kind = "array"
       /\ ~exists(ld.mem.recs, movieToAdd)
       /\ Len(ld.mem.recs) < MaxLen
       /\ other # ld.file
       /\ favorites' = pushed
       /\ file' = sv.file
       /\ last' = IF sv.threw
                  THEN HttpException(l2, "Failed to save favorites", 500)
                  ELSE Ok(l2, "Movie added to favorites")

AddToFavoritesRaced(W) ==
    /\ \E m \in Movies, wl \in LoadWrites(file, W), ws \in W,
          other \in FileContents :
           addToFavoritesRaced(m, wl, ws, other)
    /\ UNCHANGED client

(* removeFromFavorites on the path that writes, with another process
   writing `other` into the file between the reload and the write *)
removeFromFavoritesRaced(movieId, wl, ws, other) ==
    LET ld == reloadFavorites(file, wl)
        index == findIndex(ld.mem.recs, movieId)
        spliced == Arr(splice(ld.mem.recs, index))
        sv == saveFavoritesOver(other, spliced, ws)
        l2 == [Request("remove", movieId) EXCEPT
                  !.id = movieId,
                  !.writes = loadWriteCount(file) + 1, !.ws = ws,
                  !.raced = TRUE, !.other = other]
    IN /\ movieId # "" /\ ~trimIsEmpty(movieId)
       /\ ld.mem.kind = "array"
       /\ index # 0
       /\ other # ld.file
       /\ favorites' = spliced
       /\ file' = sv.file
       /\ last' = IF sv.threw
                  THEN HttpException(l2, "Failed to save favorites", 500)
                  ELSE Ok(l2, "Movie removed from favorites")

RemoveFromFavoritesRaced(W) ==
    /\ \E id \in Ids, wl \in LoadWrites(file, W), ws \in W,
          other \in FileContents :
           removeFromFavoritesRaced(id, wl, ws, other)
    /\ UNCHANGED client

\* the favorites store on a reliable disk with another process writing the
\* file, between two requests or in the middle of one
NextRace ==
    \/ AddToFavorites(Reliable)
    \/ RemoveFromFavorites(Reliable)
    \/ AddToFavoritesRaced(Reliable)
    \/ RemoveFromFavoritesRaced(Reliable)
    \/ ExternalEdit

SpecRace == InitReliable /\ [][NextRace]_vars

(* ------------------------ listing page by page ------------------------- *)

(* A client that lists the favorites page by page with one pageSize, as
   the pagination test does: the pageSize, the last page listed, the
   records and the counts of the pages so far, and totalPages and
   totalResults as the last response gave them. *)
Listing(pageSize, page, l, sofar) ==
    [pageSize |-> pageSize, page |-> page,
     recs |-> (IF page = 1 THEN <<>> ELSE sofar.recs) \o l.favorites,
     counts |-> Append(IF page = 1 THEN <<>> ELSE sofar.counts, l.count),
     totalPages |-> l.totalPages, totalResults |-> l.totalResults]

(* the client asks for page 1 *)
ListFirstPage ==
    /\ listing = NoListing
    /\ \E pageSize \in PageSizes \ {0}, wl \in LoadWrites(file, Reliable) :
          /\ getFavorites(1, pageSize, wl)
          /\ listing' = Listing(pageSize, 1, last', listing)
    /\ UNCHANGED <<requests, cards, bar, pages, results>>

(* the client asks for the page after the last one it got, while
   totalPages says there is one *)
ListNextPage ==
    /\ listing # NoListing
    /\ listing.page < listing.totalPages
    /\ \E wl \in LoadWrites(file, Reliable) :
          /\ getFavorites(listing.page + 1, listing.pageSize, wl)
          /\ listing' = Listing(listing.pageSize, listing.page + 1, last', listing)
    /\ UNCHANGED <<requests, cards, bar, pages, results>>

\* a stored collection listed page by page
NextListing ==
    \/ ListFirstPage
    \/ ListNextPage

SpecListing == InitLoaded /\ [][NextListing]_vars

(* ---------------------- search results and toggles --------------------- *)

\* no request sent yet from the results shown
NothingSent == [kind |-> "none", imdbID |-> "", redundant |-> FALSE]

\* isFavorite of each result as the backend tags it: the imdbID is in the
\* favorites set
TaggedResults(recs) == [id \in Ids |-> id \in getFavoritesSet(recs)]

(* The search page showing results: the cached isFavorite of every result,
   whether the cached search query has been invalidated and its refetch is
   still under way, and the last add or remove request the page sent, with
   whether the backend already was in the state the request asks for. *)
Results(recs) ==
    [shown |-> TRUE, isFavorite |-> TaggedResults(recs),
     invalidated |-> FALSE, sent |-> NothingSent]

(* the search page is opened and the results of a query arrive *)
SearchResultsArrive ==
    /\ cards = NoCards
    /\ favorites.kind = "array"
    /\ cards' = Mounted("search")
    /\ results' = Results(favorites.recs)
    /\ UNCHANGED <<store, requests, bar, pages, listing>>

(* a click on the favorite button of a result: handleToggleFavorite with
   the movie as cached *)
ClickResult ==
    /\ results # NoResults
    /\ Len(cards.inflight) < MaxInFlight
    /\ \E imdbID \in Ids :
          LET isFavorite == results.isFavorite[imdbID]
              held == imdbID \in getFavoritesSet(favorites.recs)
          IN /\ handleToggleFavorite(imdbID, isFavorite)
             /\ results' =
                   IF cards.mutatingMovieId = imdbID THEN results
                   ELSE [results EXCEPT !.sent =
                           [kind |-> IF isFavorite THEN "remove" ELSE "add",
                            imdbID |-> imdbID,
                            redundant |-> (isFavorite /\ ~held)
                                            \/ (~isFavorite /\ held)]]
    /\ UNCHANGED <<store, requests, bar, pages, listing>>

(* the backend serves one of the requests in flight and the response
   arrives: onSuccess invalidates the search queries without waiting for
   their refetch, mutateAsync settles and the handler's finally runs *)
SettleRequest ==
    /\ results # NoResults
    /\ \E i \in 1..Len(cards.inflight), wl \in LoadWrites(file, Reliable) :
          LET m == cards.inflight[i] IN
          /\ IF m.kind = "add"
             THEN addToFavorites(MovieDto(m.imdbID, "A"), wl, "ok")
             ELSE removeFromFavorites(m.imdbID, wl, "ok")
          /\ cards' = [cards EXCEPT !.mutatingMovieId = "null",
                                    !.inflight = RemoveAt(@, i)]
          /\ results' = [results EXCEPT
                            !.invalidated = @ \/ last'.res = "ok"]
    /\ UNCHANGED <<requests, bar, pages, listing>>

(* the refetch of the invalidated search query arrives: the results carry
   the isFavorite the backend computes now *)
Refetch ==
    /\ results # NoResults
    /\ results.invalidated
    /\ favorites.kind = "array"
    /\ results' = [results EXCEPT !.invalidated = FALSE,
                                  !.isFavorite = TaggedResults(favorites.recs)]
    /\ UNCHANGED <<store, requests, cards, bar, pages, listing>>

\* the search page with its results, its toggles and the backend behind
NextToggle ==
    \/ SearchResultsArrive
    \/ ClickResult
    \/ SettleRequest
    \/ Refetch

SpecToggle == InitReliable /\ [][NextToggle]_vars

(* ------------------------------ properties ----------------------------- *)

\* no two records of the array share an imdbID
NoDuplicateIds(v) ==
    \A i, j \in 1..Len(v.recs) : v.recs[i].imdbID = v.recs[j].imdbID => i = j

\* the array holds a record with this imdbID
HasId(v, id) == \E i \in 1..Len(v.recs) : v.recs[i].imdbID = id

\* the collection a file stands for: its records, none when it has no array
FileCollection(f) == IF f.kind = "array" THEN f.recs ELSE <<>>

\* the last request passed the validation of its arguments
ValidAdd(l) == l.op = "add" /\ l.movie.imdbID # ""
ValidRemove(l) == l.op = "remove" /\ l.id \notin {"", "   "}
ValidList(l) == l.op = "list" /\ l.page >= 1 /\ l.pageSize >= 1 /\ ~l.frac

\* the step taken is a call of the named operation
IsAdd == last'.op = "add"
IsRemove == last'.op = "remove"
IsList == last'.op = "list"
IsSearch == last'.op = "search"

AlreadyExists(l) ==
    l.res = "HttpException" /\ l.status = 400 /\ l.message = "Movie already in favorites"

NotFound(l) ==
    l.res = "HttpException" /\ l.status = 404 /\ l.message = "Movie not found in favorites"

IOFailure(l) ==
    l.res = "HttpException" /\ l.status = 500 /\ l.message = "Failed to save favorites"

(* C1: with no out-of-band edits, after every request neither the in-memory
   collection nor the file holds two records with one imdbID, and an add
   whose imdbID is already in the collection fails AlreadyExists, makes no
   write and leaves both the in-memory collection and the file as they
   were. *)
C1_Uniqueness ==
    [][/\ NoDuplicateIds(favorites') /\ NoDuplicateIds(file')
       /\ (IsAdd /\ HasId(favorites, last'.movie.imdbID))
            => /\ AlreadyExists(last')
               /\ last'.writes = 0
               /\ favorites' = favorites
               /\ file' = file]_vars

\* a duplicate add was rejected while the collection held another record
\* with that imdbID and different fields
C1_Witness ==
    /\ AlreadyExists(last)
    /\ last.op = "add"
    /\ favorites.kind = "array"
    /\ \E i \in 1..Len(favorites.recs) :
          /\ favorites.recs[i].imdbID = last.movie.imdbID
          /\ favorites.recs[i] # last.movie
    /\ file = favorites

\* the window [(page-1)*pageSize, page*pageSize) of recs, clipped to recs
Window(recs, page, pageSize) ==
    LET first == (page - 1) * pageSize
        n == IF Len(recs) - first < 0 THEN 0
             ELSE IF Len(recs) - first < pageSize THEN Len(recs) - first
             ELSE pageSize
    IN [i \in 1..n |-> recs[first + i]]

\* r is recs without its first record with the imdbID
IsWithoutFirst(r, recs, id) ==
    \E k \in 1..Len(recs) :
        /\ recs[k].imdbID = id
        /\ \A j \in 1..(k - 1) : recs[j].imdbID # id
        /\ Len(r) = Len(recs) - 1
        /\ \A j \in 1..Len(r) : r[j] = IF j < k THEN recs[j] ELSE recs[j + 1]

(* C2: add, remove and list act on the file's records, whatever the memory
   held: when the file holds an array of records, an add of an imdbID in the
   file fails AlreadyExists, a remove of an imdbID in the file deletes the
   first such record of the file's array (and fails only if the write
   fails), and a list with valid arguments returns the window of the file's
   array and leaves exactly the file's array in memory. *)
C2_ReloadBeforeActing ==
    [][file.kind = "array" =>
        /\ (IsAdd /\ HasId(file, last'.movie.imdbID)) => AlreadyExists(last')
        /\ (IsRemove /\ HasId(file, last'.id)) =>
              /\ last'.res = "ok" \/ IOFailure(last')
              /\ favorites'.kind = "array"
              /\ IsWithoutFirst(favorites'.recs, file.recs, last'.id)
              /\ last'.res = "ok" => file' = favorites'
        /\ (ValidList(last')) =>
              /\ last'.res = "ok"
              /\ favorites' = file
              /\ last'.favorites = Window(file.recs, last'.page, last'.pageSize)
              /\ last'.totalResults = ToString(Len(file.recs))]_vars

\* an add was rejected as a duplicate of a record that only the file held
C2_Witness ==
    /\ last.op = "add"
    /\ AlreadyExists(last)
    /\ last.stale
    /\ ~last.memHadId

(* C3: when the write of saveFavorites inside add or remove fails, the
   request fails with IOFailure, memory holds the post-mutation array (the
   file's collection with the record appended, or without the first record
   of the id) and the file does not hold that array; a list that follows directly
   returns the file's collection, and memory holds that again. *)
C3_WriteFailure ==
    [][/\ (last'.op \in {"add", "remove"} /\ last'.ws # "ok") =>
            /\ IOFailure(last')
            /\ favorites'.kind = "array"
            /\ last'.op = "add" =>
                 favorites'.recs = Append(FileCollection(file), last'.movie)
            /\ last'.op = "remove" =>
                 IsWithoutFirst(favorites'.recs, FileCollection(file), last'.id)
            /\ file' # favorites'
       /\ (IOFailure(last) /\ ValidList(last')) =>
            /\ last'.res = "ok"
            /\ favorites'.recs = FileCollection(file)
            /\ last'.favorites =
                 Window(FileCollection(file), last'.page, last'.pageSize)]_vars

\* a remove failed on its write: the record is gone from memory and still
\* in the file
C3_Witness ==
    /\ last.op = "remove"
    /\ IOFailure(last)
    /\ HasId(file, last.id)
    /\ ~HasId(favorites, last.id)

(* C4: whatever the file holds when list, add or remove reloads it, if it
   is not an array of records the request behaves as on an empty
   collection: list returns the empty page, remove fails NotFound, add
   appends to the empty collection, and no request fails with anything but
   NotFound or a failed write. *)
C4_UnreadableIsEmpty ==
    (last.before.kind # "array" /\ (ValidAdd(last) \/ ValidRemove(last) \/ ValidList(last)))
      => /\ last.res # "TypeError"
         /\ favorites.kind = "array"
         /\ last.op = "list" =>
              last.res = "ok" /\ last.favorites = <<>> /\ favorites.recs = <<>>
         /\ last.op = "remove" => NotFound(last) /\ favorites.recs = <<>>
         /\ last.op = "add" =>
              /\ last.res = "ok" \/ IOFailure(last)
              /\ favorites.recs = <<last.movie>>

(* C5: when the file holds text that does not parse, an add of a valid
   record succeeds and leaves a file holding exactly that record; a list
   returns the empty page and a remove fails NotFound, and neither writes
   the file. *)
C5_CorruptedFileRecovery ==
    last.before.kind = "garbage" =>
        /\ ValidAdd(last) =>
             /\ last.res = "ok"
             /\ file = Arr(<<last.movie>>)
             /\ favorites = file
        /\ ValidList(last) =>
             /\ last.res = "ok"
             /\ last.favorites = <<>> /\ last.count = 0
             /\ last.writes = 0 /\ file = last.before
        /\ ValidRemove(last) =>
             /\ NotFound(last)
             /\ last.writes = 0 /\ file = last.before

\* an add found unparseable text in the file and left a one-record file
C5_Witness ==
    /\ ValidAdd(last)
    /\ last.before.kind = "garbage"
    /\ last.stale
    /\ last.res = "ok"
    /\ file = Arr(<<last.movie>>)

(* C6: a remove of an imdbID the collection holds succeeds and the
   collection no longer holds it; a remove of the same imdbID that follows
   directly fails NotFound, makes no write and leaves memory and file as
   they were. *)
C6_RemoveTwice ==
    /\ (last.op = "remove" /\ HasId(last.before, last.id)) =>
          /\ last.res = "ok"
          /\ ~HasId(file, last.id) /\ ~HasId(favorites, last.id)
    /\ (last.op = "remove" /\ last.prev = "remove" /\ last.prevId = last.id) =>
          /\ NotFound(last)
          /\ last.writes = 0
          /\ file = last.before
          /\ favorites = file
          /\ ~last.stale

\* the second of two removes of one imdbID, made on a non-empty collection
C6_Witness ==
    /\ last.op = "remove"
    /\ last.prev = "remove"
    /\ last.prevId = last.id
    /\ NotFound(last)
    /\ Len(file.recs) >= 1

\* the window of the page holds position n
Covers(page, pageSize, n) == (page - 1) * pageSize < n /\ n <= page * pageSize

(* C7: directly after a successful add of a record, a list whose window
   covers the last position returns the record, and a successful search
   marks every returned item with the record's imdbID as a favorite. *)
C7_AddThenListAndSearch ==
    last.prev = "add" =>
        /\ (ValidList(last) /\ Covers(last.page, last.pageSize, Len(file.recs))) =>
              /\ last.res = "ok"
              /\ \E i \in 1..Len(last.favorites) : last.favorites[i] = last.prevMovie
        /\ (last.op = "search" /\ last.res = "ok") =>
              \A i \in 1..Len(last.movies) :
                  last.movies[i].imdbID = last.prevId => last.movies[i].isFavorite

\* a search right after an add returned the added movie, flagged, next to
\* one that is not a favorite
C7_Witness ==
    /\ last.op = "search"
    /\ last.prev = "add"
    /\ \E i, j \in 1..Len(last.movies) :
          /\ last.movies[i].imdbID = last.prevId
          /\ last.movies[i].isFavorite
          /\ ~last.movies[j].isFavorite

(* C8: an add of a record whose imdbID the collection does not hold
   succeeds and appends it; a remove of that imdbID that follows directly
   succeeds and leaves, in memory and in the file, the collection without
   that last record, which is the collection before the add.  From the
   empty collection, list(1, 10) after the add returns exactly the record,
   and after the remove the empty page. *)
C8_AddRemoveRestores ==
    /\ (ValidAdd(last) /\ ~HasId(last.before, last.movie.imdbID)) =>
          /\ last.res = "ok"
          /\ file = Arr(Append(FileCollection(last.before), last.movie))
          /\ favorites = file
    /\ (last.op = "remove" /\ last.prev = "add" /\ last.prevId = last.id) =>
          /\ last.res = "ok"
          /\ last.before.recs = Append(file.recs, last.prevMovie)
          /\ file.kind = "array"
          /\ favorites = file
    /\ (last.op = "list" /\ last.page = 1 /\ last.pageSize = 10) =>
          /\ (last.prev = "add" /\ Len(file.recs) = 1) =>
                last.res = "ok" /\ last.favorites = <<last.prevMovie>>
          /\ (last.prev = "remove" /\ Len(file.recs) = 0) =>
                last.res = "ok" /\ last.favorites = <<>> /\ last.count = 0

\* a remove right after the add of the same imdbID gave back a collection
\* that is not empty
C8_Witness ==
    /\ last.op = "remove"
    /\ last.res = "ok"
    /\ last.prev = "add"
    /\ last.prevId = last.id
    /\ Len(file.recs) >= 1
    /\ favorites = file

\* the least k with k * pageSize >= n
PagesFor(n, pageSize) ==
    CHOOSE k \in 0..n : k * pageSize >= n /\ \A j \in 0..(k - 1) : j * pageSize < n

(* C9: a list with page >= 1 and pageSize >= 1 of a collection of n records
   returns the records at positions (page-1)*pageSize+1 .. page*pageSize
   that exist, their number as count, n in text as totalResults, page as
   currentPage and the least k with k*pageSize >= n as totalPages, and
   never fails; for n = 25 and pageSize = 10 that is 10, 10, 5, 0 records
   and 3 pages. *)
C9_Pagination ==
    (ValidList(last) /\ last.before.kind = "array") =>
        LET recs == last.before.recs
            n == Len(recs)
        IN /\ last.res = "ok"
           /\ last.favorites = Window(recs, last.page, last.pageSize)
           /\ last.count = Len(last.favorites)
           /\ last.totalResults = ToString(n)
           /\ last.currentPage = last.page
           /\ last.totalPages = PagesFor(n, last.pageSize)
           /\ last.page > last.totalPages => last.count = 0
           /\ (n = 25 /\ last.pageSize = 10) =>
                /\ last.totalPages = 3
                /\ last.totalResults = "25"
                /\ last.count = CASE last.page \in {1, 2} -> 10
                                  [] last.page = 3 -> 5
                                  [] OTHER -> 0

\* page 3 of 25 records in pages of 10 holds records 21 to 25
C9_Witness ==
    /\ ValidList(last)
    /\ Len(last.before.recs) = 25
    /\ last.pageSize = 10
    /\ last.page = 3
    /\ last.count = 5
    /\ last.favorites[1] = StoredMovie(21)

(* C10: a list with valid arguments of an empty collection, the file
   holding the empty array or not existing, succeeds with favorites = [],
   count = 0, totalResults = "0", totalPages = 0 and currentPage = page. *)
C10_EmptyListIsNotAnError ==
    (ValidList(last) /\ last.before \in {Arr(<<>>), Missing}) =>
        /\ last.res = "ok"
        /\ last.status = 200
        /\ last.favorites = <<>>
        /\ last.count = 0
        /\ last.totalResults = "0"
        /\ last.totalPages = 0
        /\ last.currentPage = last.page

\* the controller's default list call found no file
C10_Witness ==
    /\ last.op = "list"
    /\ last.before = Missing
    /\ last.page = 1
    /\ last.pageSize = DefaultPageSize
    /\ last.res = "ok"
    /\ last.currentPage = 1

(* C11: every item of a successful search carries isFavorite true exactly
   when its imdbID is in the collection a list call made at that moment
   would report, that is, in the collection the file holds. *)
C11_FavoriteFlagMatchesList ==
    (last.op = "search" /\ last.res = "ok") =>
        \A i \in 1..Len(last.movies) :
            last.movies[i].isFavorite <=>
                \E j \in 1..Len(FileCollection(file)) :
                    FileCollection(file)[j].imdbID = last.movies[i].imdbID

(* C12: when two add requests with different imdbIDs are accepted together
   by one service instance and the file held neither imdbID, then, in
   whichever order their handlers ran, both are answered with success and
   the file (and the in-memory array) holds both records. *)
C12_ConcurrentAddsBothKept ==
    (/\ Len(requests) = 2
     /\ Quiet
     /\ requests[1].fresh
     /\ requests[2].fresh) =>
        /\ \A r \in 1..2 :
              /\ requests[r].res = "ok"
              /\ \E i \in 1..Len(FileCollection(file)) :
                    FileCollection(file)[i] = requests[r].movie
        /\ favorites = file
        /\ NoDuplicateIds(file)

\* both handlers have run, the second accepted request first, on a
\* collection that already held another record
C12_Witness ==
    /\ Len(requests) = 2
    /\ Quiet
    /\ requests[1].fresh
    /\ requests[2].fresh
    /\ Len(file.recs) = 3
    /\ file.recs[2] = requests[2].movie
    /\ file.recs[3] = requests[1].movie

(* C13: after an add or a remove that failed (already exists, not found,
   invalid argument or a failed write) the file holds either exactly what
   it held before the request or a complete array of records, never a
   partially written text. *)
C13_NoPartialWrite ==
    (last.op \in {"add", "remove"} /\ last.res # "ok") =>
        \/ file = last.before
        \/ file.kind = "array"

\* the HTTP statuses of the error kinds: invalid argument and already
\* exists (400), not found (404), upstream authentication (401), upstream
\* timeout (408), upstream error (502), upstream unavailable (503), write
\* failure and internal (500)
KindStatuses == {400, 401, 404, 408, 500, 502, 503}

(* C14: every failure a request surfaces is an HttpException of one of the
   error kinds; an exception of any other type (one raised while the loaded
   collection is used, or by the controller's own check of the id) is
   wrapped as an internal error and never reaches the caller as it is. *)
C14_FailuresAreClassified ==
    last.res # "ok" =>
        /\ last.res = "HttpException"
        /\ last.status \in KindStatuses

\* the last request is a search whose axios.get was rejected with an
\* AxiosError carrying this code
RejectedWith(code) ==
    /\ last.op = "search"
    /\ last.resp.type = "error"
    /\ last.resp.isAxios
    /\ last.resp.code = code

\* the last request failed with this status
FailedWith(status) == last.res = "HttpException" /\ last.status = status

(* C15 as stated: a catalog call that fails with a code that denotes a
   timeout, ECONNABORTED or ETIMEDOUT, is answered 408. *)
C15_EveryTimeoutCodeIs408 ==
    (RejectedWith("ECONNABORTED") \/ RejectedWith("ETIMEDOUT")) => FailedWith(408)

(* C15 as amended: a catalog call cut off by the request timeout
   (ECONNABORTED) is answered 408 whatever else the error carries; one whose
   connection attempt timed out (ETIMEDOUT) is answered 503 like the other
   network errors; and 408 is the answer to nothing but ECONNABORTED. *)
C15_TimeoutClassification ==
    /\ RejectedWith("ECONNABORTED") => FailedWith(408)
    /\ RejectedWith("ETIMEDOUT") => FailedWith(503)
    /\ (last.op = "search" /\ FailedWith(408)) => RejectedWith("ECONNABORTED")

\* the request timeout fires although the provider has answered 500
C15_Witness ==
    /\ RejectedWith("ECONNABORTED")
    /\ last.resp.status = 500
    /\ FailedWith(408)

\* the last request is a search whose axios.get was rejected
CatalogCallFailed == last.op = "search" /\ last.resp.type = "error"

\* the codes of a DNS failure, a refused connection, an unreachable network
UnavailableCodes == {"ENOTFOUND", "ECONNREFUSED", "ENETUNREACH"}

\* the codes of the timeouts, classified as C15 states
TimeoutCodes == {"ECONNABORTED", "ETIMEDOUT"}

\* the cause of the failure is a network error code of an AxiosError
NetworkCause ==
    last.resp.isAxios /\ last.resp.code \in UnavailableCodes \cup TimeoutCodes

\* the cause of the failure is the status of the provider's response
StatusCause == last.resp.isAxios /\ ~NetworkCause /\ last.resp.status # 0

(* C16: a failed catalog call is answered by its cause.  A DNS failure, a
   refused connection or an unreachable network gives 503, also when the
   error carries a response status; otherwise a provider status of 401
   gives 401 and any other provider status gives 502 with the status in the
   message; every failure that is none of these (and no timeout, see C15)
   gives 500. *)
C16_FailureClassification ==
    CatalogCallFailed =>
        /\ last.res = "HttpException"
        /\ (last.resp.isAxios /\ last.resp.code \in UnavailableCodes) =>
              last.status = 503
        /\ (StatusCause /\ last.resp.status = 401) => last.status = 401
        /\ (StatusCause /\ last.resp.status # 401) =>
              /\ last.status = 502
              /\ last.message = "OMDb API error: " \o ToString(last.resp.status)
        /\ (~NetworkCause /\ ~StatusCause) =>
              /\ last.status = 500
              /\ last.message = "Failed to search movies. Please try again later."

\* a DNS failure reported together with a 401 of the provider
C16_Witness ==
    /\ CatalogCallFailed
    /\ last.resp.isAxios
    /\ last.resp.code = "ENOTFOUND"
    /\ last.resp.status = 401
    /\ last.status = 503

\* the last request is a valid search the provider answered with a body
Answered == last.op = "search" /\ last.resp.type = "data"

(* C17: a provider body with Response = "False" makes the search return no
   items, totalResults "0" and count 0, never an error; a body with
   Response = "True" and no Error makes it return the provider's items, in
   order, and the provider's total. *)
C17_SentinelIsEmptyResult ==
    /\ (Answered /\ last.resp.Response = "False") =>
          /\ last.res = "ok"
          /\ last.movies = <<>>
          /\ last.count = 0
          /\ last.totalResults = "0"
    /\ (Answered /\ last.resp.Response = "True" /\ last.resp.Error = "") =>
          /\ last.res = "ok"
          /\ last.count = Len(last.resp.Search)
          /\ Len(last.movies) = Len(last.resp.Search)
          /\ \A i \in 1..Len(last.resp.Search) :
                /\ last.movies[i].imdbID = last.resp.Search[i].imdbID
                /\ last.movies[i].title = last.resp.Search[i].Title
                /\ last.movies[i].year = last.resp.Search[i].Year
                /\ last.movies[i].poster = last.resp.Search[i].Poster
          /\ last.resp.totalResults # "" =>
                last.totalResults = last.resp.totalResults

\* the request carries an argument the validation rejects
InvalidArgument(l) ==
    \/ l.op = "add" /\ l.movie.imdbID = ""
    \/ l.op = "remove" /\ l.id \in {"", "   "}
    \/ l.op = "list" /\ (l.page < 1 \/ l.pageSize < 1 \/ l.frac)

(* C18: an add without imdbID, a remove with an empty or blank id and a
   list with page < 1, pageSize < 1 or a non-integer number fail with 400
   before any reload or write: the in-memory array and the file are what
   they were before the call, also when the array was out of date or the
   file missing. *)
C18_InvalidArgumentTouchesNothing ==
    [][InvalidArgument(last') =>
          /\ last'.res = "HttpException"
          /\ last'.status = 400
          /\ last'.writes = 0
          /\ file' = file
          /\ favorites' = favorites]_vars

\* a list of page 1.5 rejected while the file is gone and the in-memory
\* array still holds records
C18_Witness ==
    /\ InvalidArgument(last)
    /\ last.op = "list"
    /\ last.frac
    /\ last.page >= 1
    /\ last.status = 400
    /\ last.stale
    /\ file = Missing
    /\ Len(favorites.recs) > 0

(* C19: on the search page and on the favorites page no two add/remove
   requests for one movie are in flight at a time, whatever cards are
   clicked in whatever order. *)
C19_OneRequestPerMovie ==
    \A i, j \in 1..Len(cards.inflight) :
        cards.inflight[i].imdbID = cards.inflight[j].imdbID => i = j

\* a run of changes of the input is over: the delay has passed since the
\* last change, the pending timer, if any, has fired, and no Enter was
\* pressed meanwhile
RunOver ==
    /\ bar.mounted
    /\ bar.changed
    /\ ~bar.runSubmit
    /\ bar.quiet = DebounceTicks
    /\ bar.timeoutRef = NoTimer
    /\ bar.timers = {}

(* C20 as stated: every run of changes less than the delay apart produces
   exactly one debounced onSearch call, and it carries the trimmed final
   value. *)
C20_OneCallPerRun ==
    RunOver =>
        /\ bar.runCalls = 1
        /\ bar.lastCall = [value |-> trim(bar.query), origin |-> "timer"]

\* the delay passed since the last change when the step began
Debounced == bar.quiet = DebounceTicks

(* C20 as amended: the debounce calls onSearch only when the delay has
   passed with no further change, and then with the trimmed latest value,
   which is empty or at least two characters long; when a run of changes is
   over it has produced no debounced call if the trimmed final value is a
   single character, and otherwise exactly one, carrying that value. *)
C20_Debounce ==
    [][/\ (bar'.mounted /\ bar'.event = "fire" /\ bar' # bar) =>
             /\ Debounced
             /\ bar'.lastCall = [value |-> trim(bar.query), origin |-> "timer"]
             /\ Len(trim(bar.query)) # 1
       /\ RunOver' =>
             IF Len(trim(bar'.query)) = 1
             THEN bar'.runCalls = 0
             ELSE /\ bar'.runCalls = 1
                  /\ bar'.lastCall =
                        [value |-> trim(bar'.query), origin |-> "timer"]]_vars

\* three changes less than the delay apart, the last one with blanks
\* around it, then the one call
C20_Witness ==
    /\ RunOver
    /\ bar.query = " ab "
    /\ bar.runCalls = 1
    /\ bar.lastCall = [value |-> "ab", origin |-> "timer"]
    /\ bar.event = "fire"

(* C21: every onSearch call, from the debounce timer or from a submit,
   passes a trimmed text of length 0 or at least 2, never a single
   character, whatever was typed and submitted before. *)
C21_NoSingleCharacterSearch ==
    (bar # NoBar /\ bar.lastCall # NoCall) =>
        /\ Len(bar.lastCall.value) # 1
        /\ trim(bar.lastCall.value) = bar.lastCall.value

\* Enter pressed on a single character between blanks after an earlier
\* search: nothing is called
C21_Witness ==
    /\ bar.mounted
    /\ bar.event = "submit"
    /\ bar.query = " a"
    /\ bar.callsSince = 0
    /\ bar.lastCall = [value |-> "ab", origin |-> "timer"]

\* one submit since the last change of the input, before any debounced call
SubmittedOnce ==
    /\ bar.mounted
    /\ bar.changed
    /\ bar.submitsSince = 1
    /\ bar.callsAtSubmit = 0

(* C22 as stated: a change of the input followed by a submit yields exactly
   one onSearch call, made by the submit with the trimmed query, and no
   timer is left pending, however much time passes afterwards. *)
C22_SubmitCallsOnce ==
    SubmittedOnce =>
        /\ bar.callsSince = 1
        /\ bar.lastCall = [value |-> trim(bar.query), origin |-> "submit"]
        /\ bar.timers = {}

(* C22 as amended: a change of the input followed by a submit leaves no
   timer pending; when the trimmed query is empty or at least two
   characters long the submit makes the one onSearch call, with the trimmed
   query, and none follows; when it is a single character nothing is
   called. *)
C22_SubmitBypassesDebounce ==
    SubmittedOnce =>
        /\ bar.timers = {}
        /\ bar.timeoutRef = NoTimer
        /\ IF Len(trim(bar.query)) = 1
           THEN bar.callsSince = 0
           ELSE /\ bar.callsSince = 1
                /\ bar.lastCall = [value |-> trim(bar.query), origin |-> "submit"]

\* the delay has passed since the change that the submit followed, and the
\* submit's call is still the only one
C22_Witness ==
    /\ SubmittedOnce
    /\ bar.quiet = DebounceTicks
    /\ bar.event = "tick"
    /\ bar.query = " ab "
    /\ bar.callsSince = 1

(* C26: once the search bar is unmounted no timer of it is pending and
   onSearch is not called, also when a debounce timer was pending at the
   moment of the unmount. *)
C26_NoCallAfterUnmount ==
    (bar # NoBar /\ ~bar.mounted) =>
        /\ bar.timers = {}
        /\ bar.lastCall = NoCall
        /\ bar.event = "unmount"

\* unmounted while a debounce timer was pending
C26_Witness ==
    /\ bar # NoBar
    /\ ~bar.mounted
    /\ bar.pendingAtUnmount

\* a text without any digit, or no text at all
NoDigit(text) ==
    text = Undefined \/ \A i \in 1..Len(text) : text[i] \notin Digits

(* C23: once a page of search results has arrived, the search query has a
   next page exactly when ten times the number of pages fetched is below
   the total parsed from the response's text; a total without digits or a
   missing total gives no next page; a total of "25" gives a next page
   after one and two pages and none after three, a total of "1" none after
   one. *)
C23_NextPageIffPagesRemain ==
    (pages # NoPages /\ pages.kind = "search" /\ pages.allPages >= 1) =>
        LET text == pages.page.totalResults
            total == parseInt(text)
        IN /\ hasNextPage(pages) <=>
                  (~total.nan /\ pages.allPages * 10 < total.n)
           /\ NoDigit(text) => ~hasNextPage(pages)
           /\ text = <<"2", "5">> => (hasNextPage(pages) <=> pages.allPages < 3)
           /\ text = <<"1">> => ~hasNextPage(pages)
           /\ hasNextPage(pages) => getNextPageParam(pages) = pages.allPages + 1

\* the third and last page of 25 results has arrived
C23_Witness ==
    /\ pages # NoPages
    /\ pages.kind = "search"
    /\ pages.page.totalResults = <<"2", "5">>
    /\ pages.allPages = 3
    /\ ~hasNextPage(pages)

\* the number of pages the constant total stands for: ceil(totalResults / 10)
\* for a search, a total that is not a number counting as none, and
\* totalPages for the favorites
PageBound(q) ==
    IF q.kind = "search"
    THEN MathCeilOfTenth(parseInt(q.page.totalResults)).n
    ELSE q.page.totalPages

(* C30 as stated: the number of page requests sent and the highest page
   number requested never exceed the number of pages the total stands
   for, and no next page is left once that many pages have arrived. *)
C30_FetchesWithinTotal ==
    pages # NoPages =>
        /\ pages.fetches <= PageBound(pages)
        /\ pages.requested <= PageBound(pages)
        /\ pages.allPages >= PageBound(pages) => ~hasNextPage(pages)

\* the first page is requested before any total is known
FetchBound(q) == IF PageBound(q) < 1 THEN 1 ELSE PageBound(q)

(* C30 as amended: the first page is always requested; beyond it the
   number of page requests sent and the highest page number requested
   never exceed the number of pages the total stands for, every page is
   requested once, and there is a next page only while fewer pages have
   arrived than that number, so that scrolling ends. *)
C30_ScrollTerminates ==
    pages # NoPages =>
        /\ pages.fetches <= FetchBound(pages)
        /\ pages.requested <= FetchBound(pages)
        /\ pages.requested = pages.fetches
        /\ pages.allPages + (IF pages.fetching # 0 THEN 1 ELSE 0) = pages.fetches
        /\ hasNextPage(pages) => pages.allPages < PageBound(pages)
        /\ pages.allPages >= FetchBound(pages) => ~hasNextPage(pages)

\* the favorites list scrolled to its third and last page, the sentinel
\* still on screen
C30_Witness ==
    /\ pages # NoPages
    /\ pages.kind = "favorites"
    /\ pages.page.totalPages = 3
    /\ pages.fetches = 3
    /\ pages.allPages = 3
    /\ pages.visible
    /\ ~hasNextPage(pages)

\* the array an add or remove computes from the file it reloaded
Computed(l) ==
    LET loaded == loadFavorites(l.before, "ok").mem.recs
    IN IF l.op = "add" THEN Append(loaded, l.movie)
       ELSE LET i == CHOOSE k \in 1..Len(loaded) : loaded[k].imdbID = l.id
                         /\ \A j \in 1..(k - 1) : loaded[j].imdbID # l.id
            IN SubSeq(loaded, 1, i - 1) \o SubSeq(loaded, i + 1, Len(loaded))

(* C24: when another process has written the file after an add or remove
   reloaded it and before it wrote, the request still answers with success
   and the file and the in-memory array hold exactly what the request
   computed from the content it had reloaded: whatever the other process
   wrote is gone. *)
C24_LostUpdate ==
    last.raced =>
        /\ last.res = "ok"
        /\ last.status = 200
        /\ last.other # loadFavorites(last.before, "ok").file
        /\ file = Arr(Computed(last))
        /\ favorites = Arr(Computed(last))

\* tt1 is added to an empty list while another process stores tt2: the add
\* succeeds and tt2 is not in the file
C24_Witness ==
    /\ last.raced
    /\ last.op = "add"
    /\ last.res = "ok"
    /\ last.before = Arr(<<>>)
    /\ last.other = Arr(<<MovieDto("tt2", "A")>>)
    /\ file = Arr(<<MovieDto("tt1", "A")>>)

\* s can be had from t by leaving records out, the others as they are and
\* in their order
RECURSIVE IsSubsequence(_, _)
IsSubsequence(s, t) ==
    IF s = <<>> THEN TRUE
    ELSE IF t = <<>> THEN FALSE
    ELSE IF Head(s) = Head(t) THEN IsSubsequence(Tail(s), Tail(t))
    ELSE IsSubsequence(s, Tail(t))

\* the records the operation finds when it reloads the file
Reloaded == loadFavorites(file, "ok").mem.recs

(* C25: a successful add leaves, in memory and in the file, the records it
   reloaded followed by the new one; a successful remove leaves them
   without the first record of the requested imdbID, all others in place;
   and whatever a request does, the records of the file afterwards are
   records it found there (or the one added), unchanged and in the same
   order. *)
C25_InsertionOrder ==
    [][
        /\ (IsAdd /\ last'.res = "ok") =>
              /\ favorites' = Arr(Reloaded \o <<last'.movie>>)
              /\ file' = favorites'
        /\ (IsRemove /\ last'.res = "ok") =>
              \E i \in 1..Len(Reloaded) :
                  /\ Reloaded[i].imdbID = last'.id
                  /\ \A j \in 1..(i - 1) : Reloaded[j].imdbID # last'.id
                  /\ favorites' = Arr(SubSeq(Reloaded, 1, i - 1)
                                        \o SubSeq(Reloaded, i + 1, Len(Reloaded)))
                  /\ file' = favorites'
        /\ last'.op # "edit" =>
              IsSubsequence(FileCollection(file'),
                            IF IsAdd THEN Reloaded \o <<last'.movie>> ELSE Reloaded)
    ]_vars

\* tt1 removed from a list that holds it twice, around tt2: the first one
\* goes, tt2 and the second one stay in that order
C25_Witness ==
    /\ last.op = "remove"
    /\ last.res = "ok"
    /\ last.id = "tt1"
    /\ last.before = Arr(<<MovieDto("tt1", "A"), MovieDto("tt2", "A"), MovieDto("tt1", "A")>>)
    /\ file = Arr(<<MovieDto("tt2", "A"), MovieDto("tt1", "A")>>)
    /\ favorites = file

(* C27: when an add, a remove or a list returns successfully, the array in
   memory holds exactly the records of the file as the request left it, a
   file that is missing or cannot be read or parsed counting as empty;
   other processes write only between requests. *)
C27_MemoryEqualsFile ==
    [][(last'.op \in {"add", "remove", "list"} /\ last'.res = "ok") =>
          /\ favorites'.kind = "array"
          /\ favorites'.recs = FileCollection(file')
          /\ favorites' = loadFavorites(file', "ok").mem]_vars

\* a list answered from a file that cannot be read, after memory held
\* records: memory is empty again
C27_Witness ==
    /\ last.op = "list"
    /\ last.res = "ok"
    /\ last.before = Unreadable
    /\ last.stale
    /\ file = Unreadable
    /\ favorites = Arr(<<>>)

RECURSIVE Sum(_)
Sum(counts) == IF counts = <<>> THEN 0 ELSE Head(counts) + Sum(Tail(counts))

(* C28: while a client lists the pages in order with one pageSize, what it
   has received is the beginning of the collection, in the collection's
   order, and every page before the last received holds pageSize records;
   once page totalPages has been received, the received records are the
   whole collection, each once, and the counts add up to totalResults. *)
C28_PagesCoverCollection ==
    listing # NoListing =>
        /\ listing.recs = SubSeq(favorites.recs, 1, Len(listing.recs))
        /\ Len(listing.counts) = listing.page
        /\ Sum(listing.counts) = Len(listing.recs)
        /\ \A i \in 1..(listing.page - 1) : listing.counts[i] = listing.pageSize
        /\ listing.counts[listing.page] <= listing.pageSize
        /\ listing.page >= listing.totalPages =>
              /\ listing.recs = favorites.recs
              /\ ToString(Sum(listing.counts)) = listing.totalResults
              /\ \A i \in 1..Len(favorites.recs) :
                    Cardinality({j \in 1..Len(listing.recs) :
                                    listing.recs[j] = favorites.recs[i]}) = 1

\* five records listed in pages of two: two full pages and a last page of
\* one
C28_Witness ==
    /\ listing # NoListing
    /\ listing.pageSize = 2
    /\ listing.page = 3
    /\ listing.totalPages = 3
    /\ listing.counts = <<2, 2, 1>>
    /\ Len(favorites.recs) = 5

(* C29: no request the search page sends asks the backend for what it has
   already done: no add for a movie that is in the favorites, no remove
   for one that is not, whenever the click comes relative to the refetch
   of the search results. *)
C29_NoRedundantToggle ==
    results # NoResults => ~results.sent.redundant

====
